---- MODULE Spec2Model ----
(***************************************************************************)
(* Model of flight_search_server.py: the line-oriented JSON-RPC loop       *)
(* FlightSearchServer.run_stdio, its four handlers, send_response, the     *)
(* search_flights collaborator call and main's exit status.                *)
(*                                                                         *)
(* JSON values are records tagged by their Python type, so that the        *)
(* Python operations the code applies to them (.get, subscripting,         *)
(* truthiness, "is None") are computed and can fail the way they do in     *)
(* Python.  A Python dict built by the server (a response, a result) is a  *)
(* TLA+ record; its keys are its DOMAIN.                                   *)
(***************************************************************************)
EXTENDS Integers, Sequences, FiniteSets, TLC

\* Number of lines the input stream delivers before it ends.
MaxLines == 2

(***************************************************************************)
(* JSON values as json.loads returns them                                  *)
(***************************************************************************)
JNull == [t |-> "null"]
JBool(b) == [t |-> "bool", b |-> b]
JNum(n) == [t |-> "num", n |-> n]
JStr(s) == [t |-> "str", s |-> s]
JList(l) == [t |-> "list", l |-> l]
JObj(f) == [t |-> "dict", f |-> f]

\* The local variable `request` before its first assignment.
UNSET == [t |-> "unset"]

\* Marks a key left out of an object when the input objects are enumerated.
ABSENT == [t |-> "absent"]

MkObj(r) == JObj([k \in {k \in DOMAIN r : r[k] /= ABSENT} |-> r[k]])

EmptyObject == [k \in {} |-> JNull]

\* dict.get(key, default); only a dict has .get among the JSON values.
HasGet(v) == v.t = "dict"

DictGet(d, k, default) == IF k \in DOMAIN d.f THEN d.f[k] ELSE default

\* Python truthiness of a JSON value.
Truthy(v) ==
    CASE v.t = "null" -> FALSE
      [] v.t = "bool" -> v.b
      [] v.t = "num" -> v.n /= 0
      [] v.t = "str" -> v.s /= ""
      [] v.t = "list" -> v.l /= <<>>
      [] v.t = "dict" -> DOMAIN v.f /= {}
      [] OTHER -> FALSE

\* json.dumps of a value: a text, distinct from the value it encodes.
JsonDumps(v) == [json_text |-> v]

JsonLoads(text) == text.json_text

(***************************************************************************)
(* The lookup collaborator: requests.get and what comes back               *)
(***************************************************************************)
\* Number of entries of best_flights that search_flights reports.
TopFlights == 5

\* A provider reply longer than TopFlights.
ManyFlights == 6

\* What the HTTP round trip of search_flights can do: return data (with or
\* without an "error" key, with some number of best_flights), raise a
\* requests.RequestException, or make the processing of the data raise.
Outcomes ==
    { [k |-> "data", error |-> FALSE, best_flights |-> ManyFlights],
      [k |-> "data", error |-> TRUE, best_flights |-> 0],
      [k |-> "request_exception", error |-> FALSE, best_flights |-> 0],
      [k |-> "exception", error |-> FALSE, best_flights |-> 0] }

\* The query string with the round trip decided by "is not None".
search_params_not_none(origin, destination, outbound_date, return_date) ==
    IF return_date /= JNull
    THEN [engine |-> "google_flights", departure_id |-> origin,
          arrival_id |-> destination, outbound_date |-> outbound_date,
          currency |-> "USD", api_key |-> "serp_api_key",
          return_date |-> return_date, type |-> "1"]
    ELSE [engine |-> "google_flights", departure_id |-> origin,
          arrival_id |-> destination, outbound_date |-> outbound_date,
          currency |-> "USD", api_key |-> "serp_api_key",
          type |-> "2"]

\* The query string handed to requests.get.
search_params(origin, destination, outbound_date, return_date) ==
    IF Truthy(return_date)
    THEN [engine |-> "google_flights", departure_id |-> origin,
          arrival_id |-> destination, outbound_date |-> outbound_date,
          currency |-> "USD", api_key |-> "serp_api_key",
          return_date |-> return_date, type |-> "1"]
    ELSE [engine |-> "google_flights", departure_id |-> origin,
          arrival_id |-> destination, outbound_date |-> outbound_date,
          currency |-> "USD", api_key |-> "serp_api_key",
          type |-> "2"]

Min(a, b) == IF a < b THEN a ELSE b

\* search_flights without the check for "error" in the data.
search_flights_unchecked(origin, destination, outbound_date, return_date, outcome) ==
    CASE outcome.k = "request_exception" ->
            [status |-> "error",
             message |-> <<"API request failed: ", "RequestException">>]
      [] outcome.k = "exception" ->
            [status |-> "error",
             message |-> <<"Error processing flight data: ", "Exception">>]
      [] OTHER ->
            [status |-> "success",
             origin |-> origin,
             destination |-> destination,
             outbound_date |-> outbound_date,
             return_date |-> return_date,
             trip_type |-> IF Truthy(return_date) THEN "round_trip"
                                                  ELSE "one_way",
             flights |-> [i \in 1..Min(outcome.best_flights, TopFlights)
                             |-> [flight_info |-> i]]]

search_flights(origin, destination, outbound_date, return_date, outcome) ==
    CASE outcome.k = "request_exception" ->
            [status |-> "error",
             message |-> <<"API request failed: ", "RequestException">>]
      [] outcome.k = "exception" ->
            [status |-> "error",
             message |-> <<"Error processing flight data: ", "Exception">>]
      [] outcome.k = "data" /\ outcome.error ->
            [status |-> "error",
             message |-> <<"SerpAPI error: ", "provider error">>]
      [] OTHER ->
            [status |-> "success",
             origin |-> origin,
             destination |-> destination,
             outbound_date |-> outbound_date,
             return_date |-> return_date,
             trip_type |-> IF Truthy(return_date) THEN "round_trip"
                                                  ELSE "one_way",
             flights |-> [i \in 1..Min(outcome.best_flights, TopFlights)
                             |-> [flight_info |-> i]]]

(***************************************************************************)
(* The handlers                                                            *)
(***************************************************************************)
\* The id turned into a string on its way to the response.
handler_request_id_str(request) ==
    LET request_id == DictGet(request, "id", JNull)
    IN  CASE request_id = JNull -> JStr("unknown")
          [] request_id.t = "num" -> JStr(ToString(request_id.n))
          [] OTHER -> request_id

\* request_id = request.get("id"); if request_id is None: "unknown"
handler_request_id(request) ==
    LET request_id == DictGet(request, "id", JNull)
    IN  IF request_id = JNull THEN JStr("unknown") ELSE request_id

\* The except clause taking the id the way the loop-level clause does.
call_tool_except_loop_id(request, e) ==
    [jsonrpc |-> "2.0",
     id |-> DictGet(request, "id", JNull),
     error |-> [code |-> -32603, message |-> <<"Internal error: ", e>>]]

\* The except clause of handle_call_tool.
call_tool_except(request, e) ==
    [jsonrpc |-> "2.0",
     id |-> handler_request_id(request),
     error |-> [code |-> -32603, message |-> <<"Internal error: ", e>>]]

text_result(request, text) ==
    [jsonrpc |-> "2.0",
     id |-> handler_request_id(request),
     result |-> [content |-> <<[type |-> "text", text |-> text]>>]]

\* The -32601 of an unknown tool without the name in its message.
unknown_tool_unnamed(request, tool_name) ==
    [jsonrpc |-> "2.0",
     id |-> handler_request_id(request),
     error |-> [code |-> -32601, message |-> <<"Unknown tool">>]]

unknown_tool(request, tool_name) ==
    [jsonrpc |-> "2.0",
     id |-> handler_request_id(request),
     error |-> [code |-> -32601,
                message |-> <<"Unknown tool: ", tool_name>>]]

\* handle_call_tool reading the search arguments before it looks at the name.
call_tool_arguments_first(request, outcome) ==
    IF "params" \notin DOMAIN request.f
    THEN [response |-> call_tool_except(request, <<"KeyError", "params">>),
          queries |-> <<>>]
    ELSE LET params == request.f["params"] IN
    IF ~HasGet(params)
    THEN [response |-> call_tool_except(request, <<"TypeError", params.t>>),
          queries |-> <<>>]
    ELSE IF "name" \notin DOMAIN params.f
    THEN [response |-> call_tool_except(request, <<"KeyError", "name">>),
          queries |-> <<>>]
    ELSE LET tool_name == params.f["name"]
             arguments == DictGet(params, "arguments", JObj(EmptyObject))
         IN
    IF ~HasGet(arguments)
    THEN [response |->
             call_tool_except(request, <<"AttributeError", arguments.t>>),
          queries |-> <<>>]
    ELSE IF tool_name = JStr("search_flights")
    THEN LET origin == DictGet(arguments, "origin", JStr(""))
             destination == DictGet(arguments, "destination", JStr(""))
             outbound_date == DictGet(arguments, "outbound_date", JStr(""))
             return_date == DictGet(arguments, "return_date", JNull)
             result == search_flights(origin, destination,
                                      outbound_date, return_date, outcome)
         IN  [response |-> text_result(request, JsonDumps(result)),
              queries |-> <<search_params(origin, destination,
                                          outbound_date, return_date)>>]
    ELSE IF tool_name = JStr("server_status")
    THEN [response |-> text_result(request, "Flight search server is running"),
          queries |-> <<>>]
    ELSE [response |-> unknown_tool(request, tool_name), queries |-> <<>>]

\* handle_call_tool reading the tool name with params.get("name").
call_tool_get_name(request, outcome) ==
    IF "params" \notin DOMAIN request.f
    THEN [response |-> call_tool_except(request, <<"KeyError", "params">>),
          queries |-> <<>>]
    ELSE LET params == request.f["params"] IN
    IF ~HasGet(params)
    THEN [response |-> call_tool_except(request, <<"TypeError", params.t>>),
          queries |-> <<>>]
    ELSE LET tool_name == DictGet(params, "name", JNull)
             arguments == DictGet(params, "arguments", JObj(EmptyObject))
         IN
    IF tool_name = JStr("search_flights")
    THEN IF ~HasGet(arguments)
         THEN [response |->
                  call_tool_except(request, <<"AttributeError", arguments.t>>),
               queries |-> <<>>]
         ELSE LET origin == DictGet(arguments, "origin", JStr(""))
                  destination == DictGet(arguments, "destination", JStr(""))
                  outbound_date ==
                      DictGet(arguments, "outbound_date", JStr(""))
                  return_date == DictGet(arguments, "return_date", JNull)
                  result == search_flights(origin, destination,
                                           outbound_date, return_date, outcome)
              IN  [response |-> text_result(request, JsonDumps(result)),
                   queries |-> <<search_params(origin, destination,
                                               outbound_date, return_date)>>]
    ELSE IF tool_name = JStr("server_status")
    THEN [response |-> text_result(request, "Flight search server is running"),
          queries |-> <<>>]
    ELSE [response |-> unknown_tool(request, tool_name), queries |-> <<>>]

\* handle_call_tool reading the required search arguments by subscript.
call_tool_required_arguments(request, outcome) ==
    IF "params" \notin DOMAIN request.f
    THEN [response |-> call_tool_except(request, <<"KeyError", "params">>),
          queries |-> <<>>]
    ELSE LET params == request.f["params"] IN
    IF ~HasGet(params)
    THEN [response |-> call_tool_except(request, <<"TypeError", params.t>>),
          queries |-> <<>>]
    ELSE IF "name" \notin DOMAIN params.f
    THEN [response |-> call_tool_except(request, <<"KeyError", "name">>),
          queries |-> <<>>]
    ELSE LET tool_name == params.f["name"]
             arguments == DictGet(params, "arguments", JObj(EmptyObject))
         IN
    IF tool_name = JStr("search_flights")
    THEN IF ~HasGet(arguments)
         THEN [response |->
                  call_tool_except(request, <<"AttributeError", arguments.t>>),
               queries |-> <<>>]
         ELSE IF {"origin", "destination", "outbound_date"}
                     \ DOMAIN arguments.f /= {}
         THEN [response |->
                  call_tool_except(request, <<"KeyError", "arguments">>),
               queries |-> <<>>]
         ELSE LET origin == arguments.f["origin"]
                  destination == arguments.f["destination"]
                  outbound_date == arguments.f["outbound_date"]
                  return_date == DictGet(arguments, "return_date", JNull)
                  result == search_flights(origin, destination,
                                           outbound_date, return_date, outcome)
              IN  [response |-> text_result(request, JsonDumps(result)),
                   queries |-> <<search_params(origin, destination,
                                               outbound_date, return_date)>>]
    ELSE IF tool_name = JStr("server_status")
    THEN [response |-> text_result(request, "Flight search server is running"),
          queries |-> <<>>]
    ELSE [response |-> unknown_tool(request, tool_name), queries |-> <<>>]

\* handle_call_tool: the response it returns and the HTTP queries it made.
call_tool(request, outcome) ==
    IF "params" \notin DOMAIN request.f
    THEN [response |-> call_tool_except(request, <<"KeyError", "params">>),
          queries |-> <<>>]
    ELSE LET params == request.f["params"] IN
    IF ~HasGet(params)
    THEN [response |-> call_tool_except(request, <<"TypeError", params.t>>),
          queries |-> <<>>]
    ELSE IF "name" \notin DOMAIN params.f
    THEN [response |-> call_tool_except(request, <<"KeyError", "name">>),
          queries |-> <<>>]
    ELSE LET tool_name == params.f["name"]
             arguments == DictGet(params, "arguments", JObj(EmptyObject))
         IN
    IF tool_name = JStr("search_flights")
    THEN IF ~HasGet(arguments)
         THEN [response |->
                  call_tool_except(request, <<"AttributeError", arguments.t>>),
               queries |-> <<>>]
         ELSE LET origin == DictGet(arguments, "origin", JStr(""))
                  destination == DictGet(arguments, "destination", JStr(""))
                  outbound_date ==
                      DictGet(arguments, "outbound_date", JStr(""))
                  return_date == DictGet(arguments, "return_date", JNull)
                  result == search_flights(origin, destination,
                                           outbound_date, return_date, outcome)
              IN  [response |-> text_result(request, JsonDumps(result)),
                   queries |-> <<search_params(origin, destination,
                                               outbound_date, return_date)>>]
    ELSE IF tool_name = JStr("server_status")
    THEN [response |-> text_result(request, "Flight search server is running"),
          queries |-> <<>>]
    ELSE [response |-> unknown_tool(request, tool_name), queries |-> <<>>]

handle_call_tool(request, outcome) == call_tool(request, outcome).response

\* The two descriptors in the other order.
tools_status_first ==
    << [name |-> "server_status",
        description |-> "Check if the flight search server is running",
        inputSchema |-> [type |-> "object", properties |-> {}]],
       [name |-> "search_flights",
        description |-> "Search for flights between airports",
        inputSchema |->
            [type |-> "object",
             properties |-> {"origin", "destination", "outbound_date",
                             "return_date"},
             required |-> <<"origin", "destination", "outbound_date">>]] >>

tools ==
    << [name |-> "search_flights",
        description |-> "Search for flights between airports",
        inputSchema |->
            [type |-> "object",
             properties |-> {"origin", "destination", "outbound_date",
                             "return_date"},
             required |-> <<"origin", "destination", "outbound_date">>]],
       [name |-> "server_status",
        description |-> "Check if the flight search server is running",
        inputSchema |-> [type |-> "object", properties |-> {}]] >>

handle_list_tools(request) ==
    [jsonrpc |-> "2.0",
     id |-> handler_request_id(request),
     result |-> [tools |-> tools]]

handle_initialize(request) ==
    [jsonrpc |-> "2.0",
     id |-> handler_request_id(request),
     result |-> [protocolVersion |-> "2024-11-05",
                 capabilities |-> [tools |-> EmptyObject],
                 serverInfo |-> [name |-> "flight-search-server",
                                 version |-> "1.0.2"]]]

handle_ping(request) ==
    [jsonrpc |-> "2.0",
     id |-> handler_request_id(request),
     result |-> EmptyObject]

(***************************************************************************)
(* The input stream                                                        *)
(***************************************************************************)
Ids == {ABSENT, JNull, JNum(1), JStr("a")}

\* Every value of method except "tools/call": absent, the routed names and
\* an unrecognised name.
PlainMethods ==
    {ABSENT, JStr("initialize"), JStr("tools/list"), JStr("ping"),
     JStr("notifications/initialized"), JStr("foo")}

Args(origin, return_date) ==
    MkObj([origin |-> origin, destination |-> JStr("LAX"),
           outbound_date |-> JStr("2025-01-01"), return_date |-> return_date])

Params(name, arguments) == MkObj([name |-> name, arguments |-> arguments])

\* params of a tools/call: absent, not a mapping, without a name, and each
\* tool name with arguments absent, null, not a mapping, empty or filled.
AllParams ==
    {ABSENT, JNull, JList(<<>>),
     Params(ABSENT, ABSENT),
     Params(JNum(3), ABSENT),
     Params(JStr("book_hotel"), ABSENT),
     Params(JStr("book_hotel"), JList(<<>>))}
    \cup {Params(JStr("server_status"), a) :
            a \in {ABSENT, JNull, JList(<<>>), JObj(EmptyObject),
                   Args(JStr("JFK"), ABSENT)}}
    \cup {Params(JStr("search_flights"), a) :
            a \in {ABSENT, JNull, JList(<<>>),
                   Args(JStr("JFK"), ABSENT),
                   Args(JStr("JFK"), JStr("2025-01-09")),
                   Args(ABSENT, ABSENT),
                   Args(JStr("JFK"), JNull),
                   Args(JStr("JFK"), JStr(""))}}

Envelope(id, method, params) ==
    MkObj([jsonrpc |-> JStr("2.0"), id |-> id, method |-> method,
           params |-> params])

\* Every id with every method and no params; a search under a string id;
\* every params of a tools/call under the id 1.
Objects ==
    {Envelope(id, m, ABSENT) :
        id \in Ids, m \in PlainMethods \cup {JStr("tools/call")}}
    \cup {Envelope(JStr("a"), JStr("tools/call"),
                   Params(JStr("search_flights"), Args(JStr("JFK"), ABSENT)))}
    \cup {Envelope(JNum(1), JStr("tools/call"), p) : p \in AllParams}

\* Valid JSON that is not an object.
NonObjects == {JNull, JBool(TRUE), JNum(7), JStr("x"), JList(<<>>)}

\* A line of input, by what reading and parsing it does:
\*   blank     strips to the empty string
\*   badjson   json.loads raises json.JSONDecodeError
\*   readfail  readline or json.loads raises another exception (bytes that
\*             do not decode under a strict codec, nesting beyond the
\*             recursion limit, which raises RecursionError)
\*   json      json.loads returns v
Lines ==
    {[k |-> "blank"], [k |-> "badjson"], [k |-> "readfail"]}
    \cup {[k |-> "json", v |-> v] : v \in Objects \cup NonObjects}

(***************************************************************************)
(* State                                                                   *)
(***************************************************************************)
VARIABLES
    pc,         \* where run_stdio / main is: "read", "dispatch", "send",
                \* "returned", "raised", "exited"
    lines,      \* the lines read from stdin so far
    request,    \* the local variable request of run_stdio
    response,   \* the response (or error_response) about to be sent
    stdout,     \* the response lines written so far
    owner,      \* owner[i]: the number of the line during whose cycle
                \* stdout[i] was written
    queries,    \* the HTTP queries made so far, each with its line number
    exit_code   \* the exit status of the process, -1 while it runs

vars == <<pc, lines, request, response, stdout, owner, queries, exit_code>>

Init ==
    /\ pc = "read"
    /\ lines = <<>>
    /\ request = UNSET
    /\ response = UNSET
    /\ stdout = <<>>
    /\ owner = <<>>
    /\ queries = <<>>
    /\ exit_code = -1

(***************************************************************************)
(* run_stdio                                                               *)
(***************************************************************************)
\* The parse error with its id left out, since no id was read.
parse_error_no_id ==
    [jsonrpc |-> "2.0",
     error |-> [code |-> -32700, message |-> <<"Parse error: ", "JSONDecodeError">>]]

parse_error ==
    [jsonrpc |-> "2.0",
     id |-> JNull,
     error |-> [code |-> -32700, message |-> <<"Parse error: ", "JSONDecodeError">>]]

\* The last except clause of the loop. Evaluating request.get("id") raises
\* again when request is bound to a value that has no .get.
except_raises(req) == req /= UNSET /\ ~HasGet(req)

internal_error(req, e) ==
    [jsonrpc |-> "2.0",
     id |-> IF req = UNSET THEN JNull ELSE DictGet(req, "id", JNull),
     error |-> [code |-> -32603, message |-> <<"Internal error: ", e>>]]

\* The else branch answering with the code of an invalid request.
method_not_found_invalid_request(req) ==
    [jsonrpc |-> "2.0",
     id |-> DictGet(req, "id", JStr("unknown")),
     error |-> [code |-> -32600,
                message |-> <<"Method not found: ",
                              DictGet(req, "method", JNull)>>]]

\* Method not found with the id computed as the handlers compute it.
method_not_found_handler_id(req) ==
    [jsonrpc |-> "2.0",
     id |-> handler_request_id(req),
     error |-> [code |-> -32601,
                message |-> <<"Method not found: ",
                              DictGet(req, "method", JNull)>>]]

method_not_found(req) ==
    [jsonrpc |-> "2.0",
     id |-> DictGet(req, "id", JStr("unknown")),
     error |-> [code |-> -32601,
                message |-> <<"Method not found: ",
                              DictGet(req, "method", JNull)>>]]

\* readline returns "": break.
ReadEOF ==
    /\ pc = "read"
    /\ pc' = "returned"
    /\ UNCHANGED <<lines, request, response, stdout, owner, queries, exit_code>>

\* The line strips to "": continue.
ReadBlank ==
    /\ pc = "read"
    /\ Len(lines) < MaxLines
    /\ lines' = Append(lines, [k |-> "blank"])
    /\ UNCHANGED <<pc, request, response, stdout, owner, queries, exit_code>>

\* A decode error treated like the end of the stream: log and break.
ReadBadJson_break ==
    /\ pc = "read"
    /\ Len(lines) < MaxLines
    /\ lines' = Append(lines, [k |-> "badjson"])
    /\ pc' = "returned"
    /\ UNCHANGED <<request, response, stdout, owner, queries, exit_code>>

\* json.loads raises JSONDecodeError: the -32700 response is built.
ReadBadJson ==
    /\ pc = "read"
    /\ Len(lines) < MaxLines
    /\ lines' = Append(lines, [k |-> "badjson"])
    /\ response' = parse_error
    /\ pc' = "send"
    /\ UNCHANGED <<request, stdout, owner, queries, exit_code>>

\* readline or json.loads raises another exception; request keeps the value
\* of the previous cycle.
ReadFail ==
    /\ pc = "read"
    /\ Len(lines) < MaxLines
    /\ lines' = Append(lines, [k |-> "readfail"])
    /\ IF except_raises(request)
       THEN pc' = "raised" /\ UNCHANGED response
       ELSE pc' = "send" /\ response' = internal_error(request, "read")
    /\ UNCHANGED <<request, stdout, owner, queries, exit_code>>

\* json.loads returns a value, which is bound to request.
ReadJson ==
    /\ pc = "read"
    /\ Len(lines) < MaxLines
    /\ \E v \in Objects \cup NonObjects :
          /\ lines' = Append(lines, [k |-> "json", v |-> v])
          /\ request' = v
    /\ pc' = "dispatch"
    /\ UNCHANGED <<response, stdout, owner, queries, exit_code>>

\* request.get("method") on a value without .get raises AttributeError; it
\* is caught by the last except clause, whose request.get("id") raises
\* again, out of run_stdio.
DispatchNonObject ==
    /\ pc = "dispatch"
    /\ ~HasGet(request)
    /\ IF except_raises(request)
       THEN pc' = "raised" /\ UNCHANGED response
       ELSE pc' = "send" /\ response' = internal_error(request, "get")
    /\ UNCHANGED <<lines, request, stdout, owner, queries, exit_code>>

\* The if/elif chain over method.
Dispatch ==
    /\ pc = "dispatch"
    /\ HasGet(request)
    /\ LET method == DictGet(request, "method", JNull) IN
       CASE method = JStr("initialize") ->
               /\ response' = handle_initialize(request)
               /\ pc' = "send"
               /\ UNCHANGED queries
         [] method = JStr("tools/list") ->
               /\ response' = handle_list_tools(request)
               /\ pc' = "send"
               /\ UNCHANGED queries
         [] method = JStr("tools/call") ->
               \E outcome \in Outcomes :
                  LET r == call_tool(request, outcome) IN
                  /\ response' = r.response
                  /\ queries' = queries \o
                        [i \in 1..Len(r.queries) |->
                            [line |-> Len(lines), params |-> r.queries[i],
                             outcome |-> outcome]]
                  /\ pc' = "send"
         [] method = JStr("ping") ->
               /\ response' = handle_ping(request)
               /\ pc' = "send"
               /\ UNCHANGED queries
         [] method = JStr("notifications/initialized") ->
               /\ pc' = "read"
               /\ UNCHANGED <<response, queries>>
         [] OTHER ->
               /\ response' = method_not_found(request)
               /\ pc' = "send"
               /\ UNCHANGED queries
    /\ UNCHANGED <<lines, request, stdout, owner, exit_code>>

\* send_response with the debug line going to stdout as well.
send_response_debug_on_stdout ==
    /\ pc = "send"
    /\ stdout' = stdout \o <<response, response>>
    /\ owner' = owner \o <<Len(lines), Len(lines)>>
    /\ pc' = "read"
    /\ UNCHANGED <<lines, request, response, queries, exit_code>>

\* send_response: print the line and flush.
send_response ==
    /\ pc = "send"
    /\ stdout' = Append(stdout, response)
    /\ owner' = Append(owner, Len(lines))
    /\ pc' = "read"
    /\ UNCHANGED <<lines, request, response, queries, exit_code>>

(***************************************************************************)
(* main                                                                    *)
(***************************************************************************)
\* main leaving through sys.exit(1) after the loop has returned.
MainReturn_exit1 ==
    /\ pc = "returned"
    /\ pc' = "exited"
    /\ exit_code' = 1
    /\ UNCHANGED <<lines, request, response, stdout, owner, queries>>

\* asyncio.run returns: main falls off its end.
MainReturn ==
    /\ pc = "returned"
    /\ pc' = "exited"
    /\ exit_code' = 0
    /\ UNCHANGED <<lines, request, response, stdout, owner, queries>>

\* except Exception: sys.exit(1)
MainExcept ==
    /\ pc = "raised"
    /\ pc' = "exited"
    /\ exit_code' = 1
    /\ UNCHANGED <<lines, request, response, stdout, owner, queries>>

Next ==
    \/ ReadEOF
    \/ ReadBlank
    \/ ReadBadJson
    \/ ReadFail
    \/ ReadJson
    \/ DispatchNonObject
    \/ Dispatch
    \/ send_response
    \/ MainReturn
    \/ MainExcept

Spec == Init /\ [][Next]_vars

(***************************************************************************)
(* Vocabulary of the properties                                            *)
(***************************************************************************)
LineNumbers == 1..Len(lines)

\* The cycle of line i is over: a later line was read, or the loop is back
\* at readline, or it has left the loop.
Finished(i) == i < Len(lines) \/ pc \notin {"dispatch", "send"}

\* The positions of stdout written during the cycle of line i.
Responses(i) == {j \in 1..Len(stdout) : owner[j] = i}

IsEnvelope(l) == l.k = "json" /\ l.v.t = "dict"

HasId(l) == "id" \in DOMAIN l.v.f

\* The id is present and is a number or a string.
HasValueId(l) == HasId(l) /\ l.v.f["id"].t \in {"num", "str"}

MethodOf(l) == DictGet(l.v, "method", ABSENT)

RoutedMethods ==
    {JStr("initialize"), JStr("tools/list"), JStr("tools/call"), JStr("ping")}

IsResult(r) == "result" \in DOMAIN r /\ "error" \notin DOMAIN r

IsError(r, code) ==
    "error" \in DOMAIN r /\ "result" \notin DOMAIN r /\ r.error.code = code

(***************************************************************************)
(* C1: no response line is written for an envelope that has no id field,   *)
(* whatever its method.                                                    *)
(***************************************************************************)
C1_NoResponseWithoutId ==
    \A i \in LineNumbers :
        (IsEnvelope(lines[i]) /\ ~HasId(lines[i])) => Responses(i) = {}

(***************************************************************************)
(* C2: once its cycle is over, exactly one response line has been written  *)
(* for an envelope that carries an id (a number or a string), whatever its *)
(* method.                                                                 *)
(***************************************************************************)
C2_OneResponsePerRequest ==
    \A i \in LineNumbers :
        (IsEnvelope(lines[i]) /\ HasValueId(lines[i]) /\ Finished(i))
            => Cardinality(Responses(i)) = 1

C4_OnlyEOFEndsLoop == pc /= "raised" /\ exit_code /= 1

(***************************************************************************)
(* C5: for an envelope that carries an id and whose method is none of the  *)
(* five routed names, exactly one response is written; it is an error with *)
(* code -32601 and its id is the id of the envelope.                       *)
(***************************************************************************)
C5_MethodNotFound ==
    \A i \in LineNumbers :
        (/\ IsEnvelope(lines[i])
         /\ HasId(lines[i])
         /\ MethodOf(lines[i]) \notin
                RoutedMethods \cup {JStr("notifications/initialized")}
         /\ Finished(i))
        => /\ Cardinality(Responses(i)) = 1
           /\ \A j \in Responses(i) :
                 /\ IsError(stdout[j], -32601)
                 /\ stdout[j].id = lines[i].v.f["id"]

\* Both an unrecognised name and a missing method were answered.
C5_Witness ==
    /\ Len(lines) = 2
    /\ pc = "read"
    /\ IsEnvelope(lines[1]) /\ HasId(lines[1])
    /\ MethodOf(lines[1]) = JStr("foo")
    /\ IsEnvelope(lines[2]) /\ HasId(lines[2])
    /\ MethodOf(lines[2]) = ABSENT
    /\ Len(stdout) = 2
    /\ stdout[1].id = JStr("a")

(***************************************************************************)
(* C6: every response line written has an id field and exactly one of the  *)
(* fields result and error.                                                *)
(***************************************************************************)
C6_WellFormedResponse ==
    \A j \in 1..Len(stdout) :
        /\ "id" \in DOMAIN stdout[j]
        /\ ("result" \in DOMAIN stdout[j]) /= ("error" \in DOMAIN stdout[j])

\* A parse error and a handler result are both on stdout.
C6_Witness ==
    /\ Len(stdout) = 2
    /\ IsError(stdout[1], -32700)
    /\ IsResult(stdout[2])

(***************************************************************************)
(* C7: processing is sequential: the lines of stdout are in the order of   *)
(* the input lines that caused them, an input line causes at most one of   *)
(* them, each is written during the cycle of its own line (before the next *)
(* line is read) and answers that line.                                    *)
(***************************************************************************)
C7_Sequential ==
    /\ Len(owner) = Len(stdout)
    /\ \A j, k \in 1..Len(stdout) : j < k => owner[j] < owner[k]
    /\ \A j \in 1..Len(stdout) :
          /\ owner[j] \in LineNumbers
          /\ (IsEnvelope(lines[owner[j]]) /\ HasValueId(lines[owner[j]]))
                => stdout[j].id = lines[owner[j]].v.f["id"]
    /\ pc = "dispatch" => \A j \in 1..Len(stdout) : owner[j] < Len(lines)

\* Two requests with different ids were answered, one after the other.
C7_Witness ==
    /\ Len(lines) = 2
    /\ owner = <<1, 2>>
    /\ IsEnvelope(lines[1]) /\ IsEnvelope(lines[2])
    /\ stdout[1].id = JStr("a")
    /\ stdout[2].id = JNum(1)

(***************************************************************************)
(* C8: whatever the lookup does (data, data with a provider error, a       *)
(* request exception, an exception while processing), the response of the  *)
(* search_flights call has a result with a single text content block and   *)
(* no error field; when the lookup failed the text is JSON whose status is *)
(* "error".                                                                *)
(***************************************************************************)
LookupFailed(outcome) == outcome.k /= "data" \/ outcome.error

C8_LookupFailureIsToolOutput ==
    \A q \in 1..Len(queries) :
        Finished(queries[q].line) =>
            /\ Cardinality(Responses(queries[q].line)) = 1
            /\ \A j \in Responses(queries[q].line) :
                  /\ IsResult(stdout[j])
                  /\ Len(stdout[j].result.content) = 1
                  /\ stdout[j].result.content[1].type = "text"
                  /\ LookupFailed(queries[q].outcome) <=>
                        JsonLoads(stdout[j].result.content[1].text).status
                            = "error"

\* A lookup that returned a provider error and one that raised were both
\* answered.
C8_Witness ==
    /\ Len(queries) = 2
    /\ queries[1].outcome.k = "data" /\ queries[1].outcome.error
    /\ queries[2].outcome.k = "request_exception"
    /\ Len(stdout) = 2

(***************************************************************************)
(* C9: for a request whose id is a number or a string and whose method is  *)
(* initialize, tools/list, tools/call or ping, the response carries that   *)
(* id unchanged, be it a result or an error; ping answers with an empty    *)
(* result object.                                                          *)
(***************************************************************************)
C9_IdEchoed ==
    \A i \in LineNumbers :
        (/\ IsEnvelope(lines[i])
         /\ HasValueId(lines[i])
         /\ MethodOf(lines[i]) \in RoutedMethods
         /\ Finished(i))
        => /\ Responses(i) /= {}
           /\ \A j \in Responses(i) :
                 /\ stdout[j].id = lines[i].v.f["id"]
                 /\ MethodOf(lines[i]) = JStr("ping") =>
                       IsResult(stdout[j]) /\ DOMAIN stdout[j].result = {}

\* ping with id 1 was answered by id 1 and an empty result, and a
\* tools/call with a string id was answered by an error.
C9_Witness ==
    /\ Len(lines) = 2
    /\ IsEnvelope(lines[1]) /\ IsEnvelope(lines[2])
    /\ MethodOf(lines[1]) = JStr("ping")
    /\ MethodOf(lines[2]) = JStr("tools/call")
    /\ Len(stdout) = 2
    /\ stdout[1].id = JNum(1)
    /\ IsResult(stdout[1]) /\ DOMAIN stdout[1].result = {}
    /\ stdout[2].id = JStr("a")
    /\ IsError(stdout[2], -32603)

(***************************************************************************)
(* C10: a tools/call whose params.name is a string other than              *)
(* search_flights and server_status is answered by an error with code      *)
(* -32601 whose message holds that name, and makes no lookup.              *)
(***************************************************************************)
NamesUnknownTool(l) ==
    /\ IsEnvelope(l)
    /\ MethodOf(l) = JStr("tools/call")
    /\ "params" \in DOMAIN l.v.f
    /\ l.v.f["params"].t = "dict"
    /\ "name" \in DOMAIN l.v.f["params"].f
    /\ l.v.f["params"].f["name"].t = "str"
    /\ l.v.f["params"].f["name"] \notin
            {JStr("search_flights"), JStr("server_status")}

C10_UnknownTool ==
    \A i \in LineNumbers :
        (NamesUnknownTool(lines[i]) /\ Finished(i))
        => /\ Cardinality(Responses(i)) = 1
           /\ \A j \in Responses(i) :
                 /\ IsError(stdout[j], -32601)
                 /\ stdout[j].error.message =
                       <<"Unknown tool: ", lines[i].v.f["params"].f["name"]>>
           /\ \A q \in 1..Len(queries) : queries[q].line /= i

\* An unknown tool was called after a search that did make a lookup.
C10_Witness ==
    /\ Len(lines) = 2
    /\ NamesUnknownTool(lines[2])
    /\ Len(queries) = 1
    /\ Len(stdout) = 2
    /\ pc = "read"

(***************************************************************************)
(* C11: for a search_flights call whose lookup succeeds, the payload's     *)
(* trip_type is one_way when the arguments hold no return_date and         *)
(* round_trip when a return_date is supplied, whatever its value.          *)
(***************************************************************************)
\* arguments of the tools/call on line i, as handle_call_tool reads it.
ArgumentsOf(i) ==
    DictGet(lines[i].v.f["params"], "arguments", JObj(EmptyObject))

\* The arguments hold a return_date that is not null.
ReturnDateSupplied(i) ==
    /\ "return_date" \in DOMAIN ArgumentsOf(i).f
    /\ ArgumentsOf(i).f["return_date"] /= JNull

\* The payload decoded from the text block of response j.
Payload(j) == JsonLoads(stdout[j].result.content[1].text)

C11_TripTypeBySupplied ==
    \A q \in 1..Len(queries) :
        (Finished(queries[q].line) /\ ~LookupFailed(queries[q].outcome)) =>
            \A j \in Responses(queries[q].line) :
                Payload(j).trip_type =
                    IF ReturnDateSupplied(queries[q].line)
                    THEN "round_trip" ELSE "one_way"

(***************************************************************************)
(* C11, amended: the payload's trip_type is round_trip exactly when the    *)
(* return_date of the arguments is truthy (present, not null, not the      *)
(* empty string) and one_way otherwise; the query sent to the provider     *)
(* agrees: type "1" with return_date for round_trip, type "2" without      *)
(* return_date for one_way.                                                *)
(***************************************************************************)
C11_TripTypeByTruthiness ==
    \A q \in 1..Len(queries) :
        LET round ==
                Truthy(DictGet(ArgumentsOf(queries[q].line), "return_date",
                               JNull))
        IN  /\ queries[q].params.type = IF round THEN "1" ELSE "2"
            /\ ("return_date" \in DOMAIN queries[q].params) <=> round
            /\ (Finished(queries[q].line)
                    /\ ~LookupFailed(queries[q].outcome)) =>
                 \A j \in Responses(queries[q].line) :
                     Payload(j).trip_type =
                         IF round THEN "round_trip" ELSE "one_way"

\* A search with an empty return_date was answered as one_way and a search
\* with a date as round_trip.
C11_Witness ==
    /\ Len(queries) = 2
    /\ Len(stdout) = 2
    /\ pc = "read"
    /\ ~LookupFailed(queries[1].outcome)
    /\ ~LookupFailed(queries[2].outcome)
    /\ ArgumentsOf(1) = Args(JStr("JFK"), JStr(""))
    /\ Payload(1).trip_type = "one_way"
    /\ ArgumentsOf(2) = Args(JStr("JFK"), JStr("2025-01-09"))
    /\ Payload(2).trip_type = "round_trip"

(***************************************************************************)
(* C12: every tools/list, wherever it stands in the session, is answered   *)
(* by a result whose tools list has exactly two descriptors,               *)
(* search_flights first and server_status second.                          *)
(***************************************************************************)
IsToolsList(l) == IsEnvelope(l) /\ MethodOf(l) = JStr("tools/list")

C12_TwoToolsInOrder ==
    \A i \in LineNumbers :
        (IsToolsList(lines[i]) /\ Finished(i))
        => /\ Cardinality(Responses(i)) = 1
           /\ \A j \in Responses(i) :
                 /\ IsResult(stdout[j])
                 /\ DOMAIN stdout[j].result = {"tools"}
                 /\ Len(stdout[j].result.tools) = 2
                 /\ stdout[j].result.tools[1].name = "search_flights"
                 /\ stdout[j].result.tools[2].name = "server_status"

\* tools/list was answered after a search and again as the next line would
\* be read.
C12_Witness ==
    /\ Len(lines) = 2
    /\ Len(queries) = 1
    /\ IsToolsList(lines[2])
    /\ Responses(2) /= {}
    /\ pc = "read"

(***************************************************************************)
(* C13: a tools/call of server_status is answered by a result with the     *)
(* same fixed text whatever params.arguments is (absent, null, empty, a    *)
(* filled mapping, not a mapping), never by an error.                      *)
(***************************************************************************)
NamesTool(l, name) ==
    /\ IsEnvelope(l)
    /\ MethodOf(l) = JStr("tools/call")
    /\ "params" \in DOMAIN l.v.f
    /\ l.v.f["params"].t = "dict"
    /\ "name" \in DOMAIN l.v.f["params"].f
    /\ l.v.f["params"].f["name"] = JStr(name)

C13_ServerStatusFixedText ==
    \A i \in LineNumbers :
        (NamesTool(lines[i], "server_status") /\ Finished(i))
        => /\ Cardinality(Responses(i)) = 1
           /\ \A j \in Responses(i) :
                 /\ IsResult(stdout[j])
                 /\ stdout[j].result.content =
                       <<[type |-> "text",
                          text |-> "Flight search server is running"]>>

\* server_status was answered with arguments that are a list and with
\* arguments that are a filled mapping.
C13_Witness ==
    /\ Len(lines) = 2
    /\ NamesTool(lines[1], "server_status")
    /\ NamesTool(lines[2], "server_status")
    /\ ArgumentsOf(1) = JList(<<>>)
    /\ ArgumentsOf(2) = Args(JStr("JFK"), ABSENT)
    /\ Len(stdout) = 2
    /\ stdout[1].result = stdout[2].result

(***************************************************************************)
(* C14: when readline reports the end of the stream, after any lines read  *)
(* before, the loop is left, nothing more is written to stdout and the     *)
(* process exits with code 0.                                              *)
(***************************************************************************)
C14_EOFExitsClean ==
    [][/\ (pc = "read" /\ pc' \notin {"read", "dispatch", "send", "raised"})
            => (pc' = "returned" /\ stdout' = stdout)
       /\ pc = "returned"
            => (pc' = "exited" /\ exit_code' = 0 /\ stdout' = stdout)
       /\ pc = "exited" => stdout' = stdout]_vars

\* The stream ended after two answered lines and the process has exited.
C14_Witness ==
    /\ pc = "exited"
    /\ exit_code = 0
    /\ Len(lines) = 2
    /\ Len(stdout) = 2

(***************************************************************************)
(* C15: for a line that is valid JSON but not an object, exactly one       *)
(* response is written, an error with code -32700 and id null, and the     *)
(* loop goes on reading.                                                   *)
(***************************************************************************)
IsNonObject(l) == l.k = "json" /\ l.v.t /= "dict"

C15_NonObjectIsParseError ==
    \A i \in LineNumbers :
        (IsNonObject(lines[i]) /\ Finished(i))
        => /\ Cardinality(Responses(i)) = 1
           /\ \A j \in Responses(i) :
                 IsError(stdout[j], -32700) /\ stdout[j].id = JNull
           /\ i = Len(lines) => pc \in {"read", "returned"} \/ exit_code = 0

(***************************************************************************)
(* C16: a tools/call whose params has no name field is answered like a     *)
(* call of an unknown tool, by an error with code -32601.                  *)
(***************************************************************************)
HasNoToolName(l) ==
    /\ IsEnvelope(l)
    /\ MethodOf(l) = JStr("tools/call")
    /\ "params" \in DOMAIN l.v.f
    /\ l.v.f["params"].t = "dict"
    /\ "name" \notin DOMAIN l.v.f["params"].f

C16_MissingNameIsUnknownTool ==
    \A i \in LineNumbers :
        (HasNoToolName(lines[i]) /\ Finished(i))
        => /\ Responses(i) /= {}
           /\ \A j \in Responses(i) : IsError(stdout[j], -32601)

(***************************************************************************)
(* C16, amended: a tools/call whose params is a mapping with no name field *)
(* is answered by exactly one error with code -32603 whose message carries *)
(* the KeyError for name, not by -32601, and makes no lookup.              *)
(***************************************************************************)
C16_MissingNameIsInternalError ==
    \A i \in LineNumbers :
        (HasNoToolName(lines[i]) /\ Finished(i))
        => /\ Cardinality(Responses(i)) = 1
           /\ \A j \in Responses(i) :
                 /\ IsError(stdout[j], -32603)
                 /\ stdout[j].error.message =
                       <<"Internal error: ", <<"KeyError", "name">>>>
           /\ \A q \in 1..Len(queries) : queries[q].line /= i

\* A tools/call without a tool name was answered.
C16_Witness ==
    /\ Len(lines) = 2
    /\ HasNoToolName(lines[2])
    /\ Responses(2) /= {}
    /\ pc = "read"

(***************************************************************************)
(* C17: an envelope that is a JSON object without a method field is        *)
(* rejected with the parse error code -32700, and is not answered as an    *)
(* unknown method (-32601).                                                *)
(***************************************************************************)
HasNoMethod(l) == IsEnvelope(l) /\ "method" \notin DOMAIN l.v.f

C17_MissingMethodIsParseError ==
    \A i \in LineNumbers :
        (HasNoMethod(lines[i]) /\ Finished(i))
        => /\ Responses(i) /= {}
           /\ \A j \in Responses(i) : IsError(stdout[j], -32700)

(***************************************************************************)
(* C17, amended: an envelope that is a JSON object without a method field  *)
(* takes the else branch of the routing: exactly one response is written,  *)
(* an error with code -32601 and message "Method not found: None", whose   *)
(* id is the id of the envelope, or "unknown" when it has none; no handler *)
(* result is returned and no lookup is made.                               *)
(***************************************************************************)
C17_MissingMethodIsMethodNotFound ==
    \A i \in LineNumbers :
        (HasNoMethod(lines[i]) /\ Finished(i))
        => /\ Cardinality(Responses(i)) = 1
           /\ \A j \in Responses(i) :
                 /\ IsError(stdout[j], -32601)
                 /\ stdout[j].error.message = <<"Method not found: ", JNull>>
                 /\ stdout[j].id =
                       DictGet(lines[i].v, "id", JStr("unknown"))
           /\ \A q \in 1..Len(queries) : queries[q].line /= i

\* An envelope without method and without id was answered, then one
\* without method and with an id.
C17_Witness ==
    /\ Len(lines) = 2
    /\ HasNoMethod(lines[1]) /\ ~HasId(lines[1])
    /\ HasNoMethod(lines[2]) /\ HasValueId(lines[2])
    /\ Len(stdout) = 2
    /\ pc = "read"

(***************************************************************************)
(* C18: no exception leaves handle_call_tool. Every tools/call envelope,   *)
(* also with params absent, params not a mapping, the name missing or the  *)
(* search arguments null or not a mapping, gets exactly one response from  *)
(* the handler; when the call failed unexpectedly it is an error with code *)
(* -32603 carrying the exception and the id the handler took from the      *)
(* request; the loop-level except clause is not reached and run_stdio is   *)
(* not left.                                                               *)
(***************************************************************************)
IsToolsCall(l) == IsEnvelope(l) /\ MethodOf(l) = JStr("tools/call")

\* The exception the body of the handler raises on envelope v, or ABSENT.
ToolCallException(v) ==
    IF "params" \notin DOMAIN v.f THEN <<"KeyError", "params">>
    ELSE IF v.f["params"].t /= "dict" THEN <<"TypeError", v.f["params"].t>>
    ELSE IF "name" \notin DOMAIN v.f["params"].f THEN <<"KeyError", "name">>
    ELSE IF /\ v.f["params"].f["name"] = JStr("search_flights")
            /\ "arguments" \in DOMAIN v.f["params"].f
            /\ v.f["params"].f["arguments"].t /= "dict"
         THEN <<"AttributeError", v.f["params"].f["arguments"].t>>
    ELSE <<>>

C18_NoExceptionEscapesCallTool ==
    \A i \in LineNumbers :
        IsToolsCall(lines[i]) =>
            /\ i = Len(lines) => pc \in {"dispatch", "send", "read",
                                         "returned"} \/ exit_code = 0
            /\ Finished(i) =>
                 /\ Cardinality(Responses(i)) = 1
                 /\ \A j \in Responses(i) :
                       /\ stdout[j].id =
                             IF DictGet(lines[i].v, "id", JNull) = JNull
                             THEN JStr("unknown")
                             ELSE lines[i].v.f["id"]
                       /\ IsError(stdout[j], -32603)
                             <=> ToolCallException(lines[i].v) /= <<>>
                       /\ IsError(stdout[j], -32603) =>
                             stdout[j].error.message =
                                 <<"Internal error: ",
                                   ToolCallException(lines[i].v)>>

\* A tools/call without id and without params, and one whose search
\* arguments are null, were both answered with -32603.
C18_Witness ==
    /\ Len(lines) = 2
    /\ IsToolsCall(lines[1]) /\ IsToolsCall(lines[2])
    /\ ~HasId(lines[1])
    /\ ToolCallException(lines[1].v) = <<"KeyError", "params">>
    /\ ToolCallException(lines[2].v) = <<"AttributeError", "null">>
    /\ Len(stdout) = 2
    /\ pc = "read"

(***************************************************************************)
(* C19: the lookup is made only in the cycle of a tools/call naming        *)
(* search_flights, at most once per such line, and exactly once when its   *)
(* arguments are a mapping: a missing origin, destination or outbound_date *)
(* goes to the provider as the empty string. No other method or tool, no   *)
(* notification and no malformed line makes a lookup.                      *)
(***************************************************************************)
C19_LookupOnlyForSearch ==
    /\ \A q \in 1..Len(queries) :
          /\ queries[q].line \in LineNumbers
          /\ NamesTool(lines[queries[q].line], "search_flights")
          /\ queries[q].params.departure_id =
                DictGet(ArgumentsOf(queries[q].line), "origin", JStr(""))
          /\ queries[q].params.arrival_id =
                DictGet(ArgumentsOf(queries[q].line), "destination", JStr(""))
          /\ queries[q].params.outbound_date =
                DictGet(ArgumentsOf(queries[q].line), "outbound_date",
                        JStr(""))
    /\ \A q, r \in 1..Len(queries) :
          q < r => queries[q].line < queries[r].line
    /\ \A i \in LineNumbers :
          (/\ NamesTool(lines[i], "search_flights")
           /\ ArgumentsOf(i).t = "dict"
           /\ i < Len(lines) \/ pc /= "dispatch")
          => \E q \in 1..Len(queries) : queries[q].line = i

\* A search without origin made its lookup with an empty departure_id; the
\* server_status call after it made none.
C19_Witness ==
    /\ Len(lines) = 2
    /\ Len(queries) = 1
    /\ queries[1].line = 1
    /\ queries[1].params.departure_id = JStr("")
    /\ NamesTool(lines[2], "server_status")
    /\ Len(stdout) = 2
    /\ pc = "read"

(***************************************************************************)
(* C20: the id of a loop-level -32603 response is the id of the envelope   *)
(* parsed in the same cycle or null: when the cycle failed while reading   *)
(* or parsing, before request was assigned, the id is null and never the   *)
(* id of an earlier line.                                                  *)
(***************************************************************************)
C20_NoStaleId ==
    \A j \in 1..Len(stdout) :
        lines[owner[j]].k = "readfail" => stdout[j].id = JNull

====
